---- MODULE Spec2Model ----
(***************************************************************************)
(* A model of internal/adb.py (class Adb): the device-readiness check      *)
(* is_device_ready, the bridge routines check_rndis and check_simplert,    *)
(* and the parsers and helpers they use.                                   *)
(*                                                                         *)
(* The device is the environment: every device command answers with one   *)
(* of a small set of outputs, chosen freely for every command.  A command  *)
(* that fails or times out answers NoOutput (Adb.run returns None).        *)
(* A routine is modelled as a function of the object's fields and of the   *)
(* outputs of the commands it issues; it yields the value returned, the    *)
(* exception raised (if any), the commands issued in order and the new    *)
(* values of the fields.  The code is Python 2 (device output is str and   *)
(* is matched with str patterns), so None compares below every number.     *)
(*                                                                         *)
(* A call is one atomic action that takes the object from pc = "idle" to   *)
(* pc = "returned", leaving in `call` what the call did; Return hands the  *)
(* result to the caller and goes back to "idle".  check_simplert is also   *)
(* modelled one loop iteration at a time (pc = "polling"), with the        *)
(* monotonic clock, to check that its loop ends.  run is also modelled as  *)
(* the two threads of wait_for_process and the process they watch          *)
(* (pc = "waiting").                                                       *)
(***************************************************************************)
EXTENDS Integers, Sequences, FiniteSets, TLC

VARIABLES
    rndis,          \* options.rndis: None, "dhcp" or a static descriptor
    simplert,       \* options.simplert: None or "interface,dns"
    ping_address,   \* last address that answered a ping
    version,        \* "Android <release>" once known
    short_version,  \* release as major.minor, in tenths (4.4 is 44)
    kernel,         \* ro.com.google.clientidbase once known
    initialized,    \* one-time setup done
    known_apps,     \* app -> "unknown" | "installed" | "absent"
    last_bytes_rx,  \* previous received-bytes reading
    pc,             \* "idle" | "polling" | "waiting" | "returned"
    call,           \* what the last call did
    alerts_sent,    \* history: alert-suppression commands issued so far
    ready_seen,     \* history: some is_device_ready call has returned ready
    last_rndis      \* history: how the previous check_rndis call went

vars == <<rndis, simplert, ping_address, version, short_version, kernel,
          initialized, known_apps, last_bytes_rx, pc, call,
          alerts_sent, ready_seen, last_rndis>>

history == <<alerts_sent, ready_seen, last_rndis>>

self_vars == <<rndis, simplert, ping_address, version, short_version, kernel,
               initialized, known_apps, last_bytes_rx>>

\* Python's None for a string field; for short_version, a number, None is
\* NoVersion (Python 2 orders None below every number).  NoOutput is the
\* output of a command that failed or timed out (run returns None).
NoVersion == -1
None == "None"
NoOutput == [ok |-> FALSE]
Output(text) == [ok |-> TRUE, text |-> text]

Cmd(c, a) == [cmd |-> c, arg |-> a]

\* How often x occurs in the sequence q; x occurs in q.
Count(x, q) == Cardinality({i \in 1..Len(q) : q[i] = x})
InSeq(x, q) == \E i \in 1..Len(q) : q[i] = x

\* The history counters stop counting at MaxCount.
MaxCount == 2
Capped(n) == IF n > MaxCount THEN MaxCount ELSE n

Idle == [op |-> "idle"]

\* The keys of known_apps (lines 33-37).
KnownApps == <<"com.motorola.ccc.ota", "com.google.android.apps.docs",
               "com.samsung.android.MtpApplication">>

(***************************************************************************)
(* get_rndis_interface: the parser of `ip address show`.                   *)
(***************************************************************************)

\* Bounds of the listings explored.
MaxLines == 4

\* A line of `ip address show`: an interface line "<n>: <name>: ... state
\* <STATE>", an address line "inet <ipv4>", or any other line.
IfLine(n, s) == [t |-> "if", name |-> n, state |-> s, addr |-> ""]
InetLine(a) == [t |-> "inet", name |-> "", state |-> "", addr |-> a]
OtherLine == [t |-> "other", name |-> "", state |-> "", addr |-> ""]

\* str.lower on the interface states that occur.
Lower(s) ==
    CASE s = "UP" -> "up"
      [] s = "DOWN" -> "down"
      [] s = "UNKNOWN" -> "unknown"
      [] OTHER -> s

NoInterface == [interface |-> None, if_state |-> None, address |-> None,
                need_address |-> FALSE]

\* The body of the loop over the lines, with the usb0 branch taken even
\* when an interface was already chosen.
IfaceStepUsbOverrides(acc, line) ==
    IF line.t = "if"
    THEN IF line.name \in {"rndis0", "usb0"}
         THEN [interface |-> line.name, if_state |-> Lower(line.state),
               address |-> None, need_address |-> TRUE]
         ELSE [acc EXCEPT !.need_address = FALSE]
    ELSE IF acc.need_address /\ line.t = "inet"
         THEN [acc EXCEPT !.address = line.addr]
         ELSE acc

\* The body of the loop over the lines (lines 280-299).
IfaceStep(acc, line) ==
    IF line.t = "if"
    THEN IF line.name = "rndis0"
         THEN [interface |-> line.name, if_state |-> Lower(line.state),
               address |-> None, need_address |-> TRUE]
         ELSE IF acc.interface = None /\ line.name = "usb0"
         THEN [interface |-> line.name, if_state |-> Lower(line.state),
               address |-> None, need_address |-> TRUE]
         ELSE [acc EXCEPT !.need_address = FALSE]
    ELSE IF acc.need_address /\ line.t = "inet"
         THEN [acc EXCEPT !.address = line.addr]
         ELSE acc

RECURSIVE IfaceFold(_, _)
IfaceFold(acc, lines) ==
    IF lines = <<>> THEN acc
    ELSE IfaceFold(IfaceStep(acc, Head(lines)), Tail(lines))

\* get_rndis_interface on the output `out` of `ip address show`.
GetRndisInterface(out) ==
    LET acc == IF out.ok THEN IfaceFold(NoInterface, out.text)
               ELSE NoInterface
    IN [interface |-> acc.interface, if_state |-> acc.if_state,
        address |-> acc.address]

IfaceUp(r) == r.interface # None /\ r.if_state = "up" /\ r.address # None

IfNames == {"rndis0", "usb0", "eth0"}
IfStates == {"UP", "DOWN"}
Addrs == {"192.168.1.5", "10.1.1.7"}

IpLines ==
    {IfLine(n, s) : n \in IfNames, s \in IfStates}
    \cup {InetLine(a) : a \in Addrs} \cup {OtherLine}

SeqsUpTo(S, n) == UNION {[1..k -> S] : k \in 0..n}

IpAddrOuts == {NoOutput} \cup {Output(l) : l \in SeqsUpTo(IpLines, MaxLines)}

GetRndisInterfaceCall ==
    /\ pc = "idle"
    /\ \E out \in IpAddrOuts :
         call' = [op |-> "get_rndis_interface", out |-> out,
                  ret |-> GetRndisInterface(out)]
    /\ pc' = "returned"
    /\ UNCHANGED <<self_vars, history>>

(***************************************************************************)
(* get_bytes_rx: the received-bytes delta.                                 *)
(***************************************************************************)

MaxDevLines == 2

\* A line of /proc/net/dev: "<iface>: <bytes> ..." or a header line.
DevLine(i, b) == [t |-> "dev", iface |-> i, bytes |-> b]
DevHeader == [t |-> "header", iface |-> "", bytes |-> 0]

RECURSIVE SumBytesRx(_)
SumBytesRx(lines) ==
    IF lines = <<>> THEN 0
    ELSE LET l == Head(lines)
         IN (IF l.t = "dev" /\ l.iface # "lo" THEN l.bytes ELSE 0)
            + SumBytesRx(Tail(lines))

\* bytes_rx as computed by lines 521-529.
BytesRx(out) == IF out.ok THEN SumBytesRx(out.text) ELSE 0

\* The delta of line 530.
BytesDelta(bytes_rx, last) == bytes_rx - last

DevIfaces == {"lo", "rndis0", "wlan0"}
DevCounts == {200, 1000, 1500}
DevLines == {DevLine(i, b) : i \in DevIfaces, b \in DevCounts} \cup {DevHeader}
ProcNetDevOuts ==
    {NoOutput} \cup {Output(l) : l \in SeqsUpTo(DevLines, MaxDevLines)}

GetBytesRx ==
    /\ pc = "idle"
    /\ \E out \in ProcNetDevOuts :
         LET bytes_rx == BytesRx(out)
         IN /\ call' = [op |-> "get_bytes_rx", out |-> out,
                        bytes_rx |-> bytes_rx, last |-> last_bytes_rx,
                        ret |-> BytesDelta(bytes_rx, last_bytes_rx)]
            /\ last_bytes_rx' = bytes_rx
    /\ pc' = "returned"
    /\ UNCHANGED <<rndis, simplert, ping_address, version, short_version,
                   kernel, initialized, known_apps, history>>

(***************************************************************************)
(* Outcomes.  A routine yields the set of its possible outcomes, one for   *)
(* every choice of the outputs of the commands it issues.                  *)
(***************************************************************************)

\* The routine returned `r` having issued `log`.
Ret(r, log) == [ret |-> r, exc |-> "none", log |-> log]
\* The routine raised `x` having issued `log`.
Raise(x, log) == [ret |-> FALSE, exc |-> x, log |-> log]

\* str.strip on the outputs that occur: a trailing line break is dropped.
Strip(s) ==
    CASE s = "\n" -> ""
      [] s = "rndis,adb\n" -> "rndis,adb"
      [] s = "adb\n" -> "adb"
      [] s = "2.3.6\n" -> "2.3.6"
      [] s = "4.0.4\n" -> "4.0.4"
      [] s = "4.1.2\n" -> "4.1.2"
      [] s = "4.4.2\n" -> "4.4.2"
      [] s = "5.0.2\n" -> "5.0.2"
      [] s = "5.1.1\n" -> "5.1.1"
      [] s = "6.0.1\n" -> "6.0.1"
      [] s = "7.1.2\n" -> "7.1.2"
      [] s = "Q\n" -> "Q"
      [] s = "android-samsung\n" -> "android-samsung"
      [] s = "android-google\n" -> "android-google"
      [] s = "    versionName=2.1\n" -> "versionName=2.1"
      [] OTHER -> s

(***************************************************************************)
(* cleanup_device (lines 246-269)                                          *)
(***************************************************************************)

\* dumpsys window windows shows a dialog that lines 264-265 look for.
HasSystemDialog(text) ==
    text \in {"Window #3 Application Error: com.android.chrome",
              "Window #2 com.android.systemui.usb.UsbDebuggingActivity"}

\* Line 255: bool(out is not None and len(out.strip())).
Installed(out) == out.ok /\ Strip(out.text) # ""

ForceStop(app) == Cmd("shell", "am force-stop " \o app)

\* The loop over known_apps (lines 251-257) with the test of line 252
\* dropped: every pass asks again.
RECURSIVE AppsLoopRequery(_, _, _, _)
AppsLoopRequery(i, apps, log, pkg) ==
    IF i > Len(KnownApps) THEN [known_apps |-> apps, log |-> log]
    ELSE LET app == KnownApps[i]
             inst == Installed(pkg[i])
             log1 == Append(log, Cmd("shell", "dumpsys package " \o app))
         IN AppsLoopRequery(i + 1,
                     [apps EXCEPT ![i] = IF inst THEN "installed" ELSE "absent"],
                     IF inst THEN Append(log1, ForceStop(app)) ELSE log1, pkg)

\* The loop over known_apps (lines 251-257) from app number i on, when the
\* package query for app number k answers pkg[k]: [known_apps, log].
RECURSIVE AppsLoop(_, _, _, _)
AppsLoop(i, apps, log, pkg) ==
    IF i > Len(KnownApps) THEN [known_apps |-> apps, log |-> log]
    ELSE LET app == KnownApps[i]
             inst == IF apps[i] = "unknown" THEN Installed(pkg[i])
                     ELSE apps[i] = "installed"
             log1 == IF apps[i] = "unknown"
                     THEN Append(log, Cmd("shell", "dumpsys package " \o app))
                     ELSE log
         IN AppsLoop(i + 1,
                     [apps EXCEPT ![i] = IF inst THEN "installed" ELSE "absent"],
                     IF inst THEN Append(log1, ForceStop(app)) ELSE log1, pkg)

DismissSystemDialog ==
    <<Cmd("shell", "input keyevent KEYCODE_DPAD_RIGHT"),
      Cmd("shell", "input keyevent KEYCODE_DPAD_RIGHT"),
      Cmd("shell", "input keyevent KEYCODE_ENTER")>>

\* The end of cleanup_device (lines 258-269) after the app loop left `a`:
\* re.search on a missing window dump raises TypeError.
CleanupTail(a, win) ==
    LET log1 == a.log \o <<Cmd("shell", "rm -rf /sdcard/Download/*"),
                           Cmd("su", "rm -rf /data/media/0/Download/*"),
                           Cmd("shell", "dumpsys window windows")>>
    IN IF ~win.ok
       THEN [known_apps |-> a.known_apps, exc |-> "TypeError", log |-> log1]
       ELSE [known_apps |-> a.known_apps, exc |-> "none",
             log |-> IF HasSystemDialog(win.text)
                     THEN log1 \o DismissSystemDialog ELSE log1]

\* cleanup_device: the outcomes [known_apps, exc, log].
CleanupDevice(apps, In) ==
    { CleanupTail(AppsLoop(1, apps,
                           <<Cmd("su", "service call notification 1")>>, pkg),
                  win)
      : pkg \in In.pkgOuts, win \in In.winOuts }

(***************************************************************************)
(* get_battery_stats (lines 216-228)                                       *)
(***************************************************************************)

BatLine(k, v) == [key |-> k, val |-> v]

NoReading == [has_level |-> FALSE, level |-> 0, has_temp |-> FALSE, temp |-> 0]

\* One line of dumpsys battery; temp is kept in tenths of a degree, as the
\* device reports it (line 227 divides by 10.0).
BatteryStep(ret, line) ==
    CASE line.key = "level" -> [ret EXCEPT !.has_level = TRUE, !.level = line.val]
      [] line.key = "temperature" ->
           [ret EXCEPT !.has_temp = TRUE, !.temp = line.val]
      [] OTHER -> ret

RECURSIVE BatteryFold(_, _)
BatteryFold(ret, lines) ==
    IF lines = <<>> THEN ret
    ELSE BatteryFold(BatteryStep(ret, Head(lines)), Tail(lines))

GetBatteryStats(out) ==
    IF out.ok THEN BatteryFold(NoReading, out.text) ELSE NoReading

\* Thresholds of lines 446 and 449 (36.0 degrees is 360 tenths).
MinLevel == 50
MaxTemp == 360

\* is_ready after lines 446-451.
BatteryGate(battery) ==
    ~(battery.has_level /\ battery.level < MinLevel)
    /\ ~(battery.has_temp /\ battery.temp > MaxTemp)

(***************************************************************************)
(* check_rndis (lines 302-384)                                             *)
(***************************************************************************)

\* options.rndis: not given, or the descriptor split at its commas.
NoBridge == [set |-> FALSE, fields |-> <<>>]
Descriptor(fields) == [set |-> TRUE, fields |-> fields]
DhcpDescriptor == Descriptor(<<"dhcp">>)
StaticDescriptor ==
    Descriptor(<<"192.168.0.2/24", "192.168.0.1", "8.8.8.8", "8.8.4.4">>)
MalformedDescriptor == Descriptor(<<"192.168.0.2/24", "192.168.0.1">>)

\* Line 305.
IsDhcp(cfg) == cfg.fields = <<"dhcp">>

IsCidr(f) == f \in {"192.168.0.2/24"}
IsDotted(f) == f \in {"192.168.0.1", "8.8.8.8", "8.8.4.4"}

NoAddress == [ok |-> FALSE, addr |-> "", gateway |-> "", dns1 |-> "", dns2 |-> ""]

\* Lines 306-315: the pattern wants an address with a prefix length and
\* three more dotted fields.
StaticAddress(cfg) ==
    LET f == cfg.fields
    IN IF ~IsDhcp(cfg) /\ Len(f) >= 4 /\ IsCidr(f[1]) /\ IsDotted(f[2])
          /\ IsDotted(f[3]) /\ IsDotted(f[4])
       THEN [ok |-> TRUE, addr |-> f[1], gateway |-> f[2], dns1 |-> f[3],
             dns2 |-> f[4]]
       ELSE NoAddress

\* Lines 327-339 with the thresholds tested from the lowest up.
TetherFunctionAscending(sv, kern) ==
    IF sv < 40 THEN "34"
    ELSE IF sv >= 40 THEN "32"
    ELSE IF sv >= 41 THEN "33"
    ELSE IF sv >= 44 THEN "34"
    ELSE IF sv >= 50 THEN "30"
    ELSE IF sv >= 51 THEN "31"
    ELSE (IF kern = "android-samsung" THEN "41" ELSE "30")

\* Lines 327-339, versions in tenths.  An unknown short_version (None)
\* is below every threshold.
TetherFunction(sv, kern) ==
    IF sv >= 60 THEN (IF kern = "android-samsung" THEN "41" ELSE "30")
    ELSE IF sv >= 51 THEN "31"
    ELSE IF sv >= 50 THEN "30"
    ELSE IF sv >= 44 THEN "34"
    ELSE IF sv >= 41 THEN "33"
    ELSE IF sv >= 40 THEN "32"
    ELSE "34"

IpAddressShow == Cmd("shell", "ip address show")
WaitForDevice == Cmd("adb", "wait-for-device")

\* What `for line in out` (line 348) yields: out is a str, so the items are
\* its characters, none of which is an interface line.  One item is kept
\* per line; their number does not matter.
IterStr(text) ==
    [i \in 1..Len(text) |-> [t |-> "char", name |-> "", state |-> "", addr |-> ""]]

\* Lines 348-353 over the items of the loop.
RECURSIVE LinkDownLoop(_, _)
LinkDownLoop(items, interface) ==
    IF items = <<>> THEN <<>>
    ELSE LET it == Head(items)
             rest == LinkDownLoop(Tail(items), interface)
         IN IF it.t = "if" /\ it.name # interface /\ it.name # "lo"
               /\ it.name \notin {"wlan0", "wlan1"}
            THEN <<Cmd("su", "ip link set " \o it.name \o " down")>> \o rest
            ELSE rest

\* Lines 344-353.
OtherInterfacesDown(link, interface) ==
    <<Cmd("su", "svc wifi disable"), Cmd("su", "ip link show")>>
    \o (IF link.ok THEN LinkDownLoop(IterStr(link.text), interface) ELSE <<>>)

\* Lines 356-377.
StaticSetup(a, i) ==
    <<Cmd("su", "ip rule add from all lookup main"),
      Cmd("su", "ip link set " \o i \o " down"),
      Cmd("su", "ip addr flush dev " \o i),
      Cmd("su", "ip addr add " \o a.addr \o " dev " \o i),
      Cmd("su", "ip link set " \o i \o " up"),
      Cmd("su", "route add -net 0.0.0.0 netmask 0.0.0.0 gw " \o a.gateway
                \o " dev " \o i),
      Cmd("su", "setprop net." \o i \o ".gw " \o a.gateway),
      Cmd("su", "setprop net." \o i \o ".gateway " \o a.gateway),
      Cmd("su", "setprop net.dns1 " \o a.dns1),
      Cmd("su", "setprop net.dns2 " \o a.dns2),
      Cmd("su", "setprop net." \o i \o ".dns1 " \o a.dns1),
      Cmd("su", "setprop net." \o i \o ".dns2 " \o a.dns2),
      Cmd("su", "ndc resolver setifdns " \o i \o " " \o a.dns1 \o " " \o a.dns2),
      Cmd("su", "ndc resolver setdefaultif " \o i),
      Cmd("su", "setprop \"net.gprs.http-proxy\" \"\"")>>

\* An outcome of check_rndis; `queries` are the results of its calls of
\* get_rndis_interface, in order; `usb` and `link` are the outputs that
\* getprop sys.usb.config and ip link show gave, if they were issued.
RndisRet(r, log, queries) ==
    [ret |-> r, exc |-> "none", log |-> log, queries |-> queries,
     usb |-> NoOutput, link |-> NoOutput]
RndisRaise(x, log, queries) ==
    [ret |-> FALSE, exc |-> x, log |-> log, queries |-> queries,
     usb |-> NoOutput, link |-> NoOutput]

\* Lines 343-383 with the interface taken as ready once it is found.
RndisInterfaceFoundAccept(cfg, r1, r2, log, In) ==
    { RndisRet(TRUE, log \o OtherInterfacesDown(link, r2.interface),
               <<r1, r2>>)
      : link \in In.linkOuts }

\* Lines 343-383, once the interface query after tethering gave r2.
RndisInterfaceFound(cfg, r1, r2, log, In) ==
    LET a == StaticAddress(cfg)
        i == r2.interface
    IN UNION {
         LET log1 == log \o OtherInterfacesDown(link, i)
             outcomes ==
               IF a.ok
               THEN { RndisRet(IfaceUp(GetRndisInterface(q3)),
                               log1 \o StaticSetup(a, i) \o <<IpAddressShow>>,
                               <<r1, r2, GetRndisInterface(q3)>>)
                      : q3 \in In.ifaceOuts }
               ELSE IF IsDhcp(cfg)
               THEN { RndisRet(FALSE,
                               Append(log1, Cmd("su", "netcfg " \o i \o " dhcp")),
                               <<r1, r2>>) }
               ELSE { RndisRet(FALSE, log1, <<r1, r2>>) }
         IN { [o EXCEPT !.link = link] : o \in outcomes }
         : link \in In.linkOuts }

\* Line 322 with the mode test dropped: the USB mode is set every time.
UsbModeSetupAlways(text) ==
    <<Cmd("su", "setprop sys.usb.config rndis,adb"), WaitForDevice>>

\* Lines 322-325 on the text of the sys.usb.config property.
UsbModeSetup(text) ==
    IF Strip(text) # "rndis,adb"
    THEN <<Cmd("su", "setprop sys.usb.config rndis,adb"), WaitForDevice>>
    ELSE <<>>

\* Lines 320-383: the interface is not up; configure it.  out.strip() on a
\* missing property output raises AttributeError (line 322).
RndisConfigure(cfg, sv, kern, r1, In) ==
    LET log1 == <<IpAddressShow, Cmd("shell", "getprop sys.usb.config")>>
    IN UNION {
         IF ~usb.ok THEN { RndisRaise("AttributeError", log1, <<r1>>) }
         ELSE LET log2 == log1 \o UsbModeSetup(usb.text)
                      \o <<Cmd("su", "service call connectivity "
                                     \o TetherFunction(sv, kern) \o " i32 1"),
                           WaitForDevice, IpAddressShow>>
              IN UNION {
                   LET r2 == GetRndisInterface(q2)
                       outcomes ==
                         IF r2.interface # None
                         THEN RndisInterfaceFound(cfg, r1, r2, log2, In)
                         ELSE { RndisRet(FALSE, log2, <<r1, r2>>) }
                   IN { [o EXCEPT !.usb = usb] : o \in outcomes }
                   : q2 \in In.ifaceOuts }
         : usb \in In.usbOuts }

\* Lines 316-319 with the early exit dropped: an interface that is up is
\* configured again.
RndisFirstQueryNoShortcut(cfg, sv, kern, r1, In) ==
    IF IsDhcp(cfg) \/ StaticAddress(cfg).ok
    THEN RndisConfigure(cfg, sv, kern, r1, In)
    ELSE { RndisRet(IfaceUp(r1), <<IpAddressShow>>, <<r1>>) }

\* Lines 316-319 on the result r1 of the first interface query.
RndisFirstQuery(cfg, sv, kern, r1, In) ==
    IF IfaceUp(r1) THEN { RndisRet(TRUE, <<IpAddressShow>>, <<r1>>) }
    ELSE IF IsDhcp(cfg) \/ StaticAddress(cfg).ok
    THEN RndisConfigure(cfg, sv, kern, r1, In)
    ELSE { RndisRet(FALSE, <<IpAddressShow>>, <<r1>>) }

\* check_rndis: its outcomes [ret, exc, log, queries].
CheckRndis(cfg, sv, kern, In) ==
    UNION { RndisFirstQuery(cfg, sv, kern, GetRndisInterface(q1), In)
            : q1 \in In.ifaceOuts }

(***************************************************************************)
(* check_simplert (lines 386-425)                                          *)
(***************************************************************************)

TunLine == [t |-> "if", name |-> "tun0", state |-> "UNKNOWN", addr |-> ""]

\* is_tun_interface_available on the output of `ip address show`.
IsTunInterfaceAvailable(out) ==
    out.ok /\ \E i \in 1..Len(out.text) :
                out.text[i].t = "if" /\ out.text[i].name = "tun0"

HasVpnDialog(text) == text = "Window #4 com.android.vpndialogs"

\* dismiss_vpn_dialog: out.find on a missing window dump raises
\* AttributeError (line 399).
DismissVpnDialog(win) ==
    LET log1 == <<Cmd("shell", "dumpsys window windows")>>
    IN IF ~win.ok THEN Raise("AttributeError", log1)
       ELSE Ret(TRUE,
                IF HasVpnDialog(win.text)
                THEN log1 \o <<Cmd("shell", "input keyevent KEYCODE_DPAD_RIGHT"),
                               Cmd("shell", "input keyevent KEYCODE_ENTER"),
                               Cmd("shell", "input keyevent KEYCODE_DPAD_RIGHT"),
                               Cmd("shell", "input keyevent KEYCODE_ENTER")>>
                ELSE log1)

\* Line 418: the seconds check_simplert waits for the tunnel.
SimplertWait == 30
\* Line 420: the sleep that opens every iteration of the polling loop.
SleepSecs == 1
\* Iterations of the polling loop explored as one call; an iteration then
\* takes at least SimplertWait / MaxPolls seconds (the sleep, then the
\* device commands, each of which can take up to its time limit).
MaxPolls == 2
PollSecs == {(SimplertWait + MaxPolls - 1) \div MaxPolls, SimplertWait}

\* Lines 412-416 with the test of line 413 dropped: the USB mode is reset
\* whatever the first tunnel check found.
SimplertEntryAlwaysReset(avail) ==
    <<IpAddressShow, Cmd("su", "setprop sys.usb.config adb"), WaitForDevice>>

\* Lines 412-416: the commands issued before the polling loop, by the
\* result of the first tunnel check.
SimplertEntry(avail) ==
    IF avail THEN <<IpAddressShow>>
    ELSE <<IpAddressShow, Cmd("su", "setprop sys.usb.config adb"),
           WaitForDevice>>

\* Line 419 with the clock test dropped.
DeadlineNever(elapsed) == FALSE

\* Line 419: monotonic() < end_time fails, `elapsed` seconds after end_time
\* was set.
DeadlinePassed(elapsed) == ~(elapsed < SimplertWait)

\* Lines 420-422: one iteration of the polling loop.
PollIteration(win, tun) ==
    LET d == DismissVpnDialog(win)
        log1 == <<Cmd("host", "sleep 1")>> \o d.log
    IN IF d.exc # "none"
       THEN [exc |-> d.exc, is_ready |-> FALSE, log |-> log1]
       ELSE [exc |-> "none", is_ready |-> IsTunInterfaceAvailable(tun),
             log |-> Append(log1, IpAddressShow)]

SimplertRet(r, log, polls, elapsed) ==
    [ret |-> r, exc |-> "none", log |-> log, polls |-> polls,
     elapsed |-> elapsed]

\* The loop of lines 419-422, `elapsed` seconds after end_time was set.
RECURSIVE PollLoop(_, _, _, _)
PollLoop(elapsed, polls, log, In) ==
    IF DeadlinePassed(elapsed) THEN { SimplertRet(FALSE, log, polls, elapsed) }
    ELSE UNION {
           LET it == PollIteration(win, tun)
           IN IF it.exc # "none"
              THEN { [ret |-> FALSE, exc |-> it.exc, log |-> log \o it.log,
                      polls |-> polls + 1, elapsed |-> elapsed + dt] }
              ELSE IF it.is_ready
              THEN { SimplertRet(TRUE, log \o it.log, polls + 1, elapsed + dt) }
              ELSE PollLoop(elapsed + dt, polls + 1, log \o it.log, In)
           : dt \in In.pollSecs, win \in In.winOuts, tun \in In.tunOuts }

\* check_simplert: its outcomes [ret, exc, log, polls, elapsed].
CheckSimplert(In) ==
    UNION {
      IF IsTunInterfaceAvailable(tun0)
      THEN { SimplertRet(TRUE, SimplertEntry(TRUE), 0, 0) }
      ELSE PollLoop(0, 0, SimplertEntry(FALSE), In)
      : tun0 \in In.tunOuts }

ResetSimplert == Cmd("shell", "am force-stop com.viper.simplert")

(***************************************************************************)
(* ping (lines 230-244)                                                    *)
(***************************************************************************)

RttLine(v) == [t |-> "rtt", val |-> v]
PingOther == [t |-> "other", val |-> 0]

NoReply == [ok |-> FALSE, rtt |-> 0]

RECURSIVE PingFold(_, _)
PingFold(ret, lines) ==
    IF lines = <<>> THEN ret
    ELSE PingFold(IF Head(lines).t = "rtt"
                  THEN [ok |-> TRUE, rtt |-> Head(lines).val] ELSE ret,
                  Tail(lines))

\* The value of ping for the output of the ping command: the round-trip
\* time of the last rtt line, or none.
PingRtt(out) == IF out.ok THEN PingFold(NoReply, out.text) ELSE NoReply

\* The answers ping can give to one probe, as responded or not.
PingAnswers(In) == { PingRtt(out).ok : out \in In.pingOuts }

(***************************************************************************)
(* The fallback addresses (lines 465-485)                                  *)
(***************************************************************************)

\* A line of getprop: [net.dnsN], [dhcp.<if>.dnsN], [dhcp.<if>.gateway]
\* or any other property, with its value.
PropLine(k, v) == [key |-> k, val |-> v]

\* Lines 469-482 with the membership test dropped.
PropsStepKeepDuplicates(acc, line) ==
    IF line.key \in {"net.dns", "dhcp.dns"}
    THEN [acc EXCEPT !.addresses = Append(acc.addresses, line.val)]
    ELSE IF line.key = "dhcp.gateway"
    THEN [acc EXCEPT !.has_gateway = TRUE, !.gateway = line.val]
    ELSE acc

\* Lines 469-482 for one line of the property scan.
PropsStep(acc, line) ==
    IF line.key \in {"net.dns", "dhcp.dns"}
    THEN IF InSeq(line.val, acc.addresses) THEN acc
         ELSE [acc EXCEPT !.addresses = Append(acc.addresses, line.val)]
    ELSE IF line.key = "dhcp.gateway"
    THEN [acc EXCEPT !.has_gateway = TRUE, !.gateway = line.val]
    ELSE acc

RECURSIVE PropsFold(_, _)
PropsFold(acc, lines) ==
    IF lines = <<>> THEN acc
    ELSE PropsFold(PropsStep(acc, Head(lines)), Tail(lines))

FallbackAddress == "8.8.8.8"

\* The list `addresses` after line 485 for the output of getprop.
FallbackAddresses(props) ==
    LET acc == IF props.ok
               THEN PropsFold([addresses |-> <<>>, has_gateway |-> FALSE,
                               gateway |-> ""], props.text)
               ELSE [addresses |-> <<>>, has_gateway |-> FALSE, gateway |-> ""]
    IN (IF acc.has_gateway THEN <<acc.gateway>> ELSE <<>>)
       \o acc.addresses \o <<FallbackAddress>>

PingCmd(a) == Cmd("ping", a)
Probe(a, ok) == [addr |-> a, ok |-> ok]

\* The loop of lines 486-490 over the addresses from number i on: the
\* outcomes [found, address, pings].
RECURSIVE ProbeLoop(_, _, _, _)
ProbeLoop(addresses, i, pings, In) ==
    IF i > Len(addresses)
    THEN { [found |-> FALSE, address |-> None, pings |-> pings] }
    ELSE UNION {
           IF ok
           THEN { [found |-> TRUE, address |-> addresses[i],
                   pings |-> Append(pings, Probe(addresses[i], TRUE))] }
           ELSE ProbeLoop(addresses, i + 1,
                          Append(pings, Probe(addresses[i], FALSE)), In)
           : ok \in PingAnswers(In) }

\* Line 488 moved out of the test of line 487: the address probed last is
\* stored whether it answered or not.
StoreLastProbed(stored, p) ==
    IF p.pings # <<>> THEN p.pings[Len(p.pings)].addr ELSE stored

\* self.ping_address after the loop of lines 486-490 ended as p: assigned
\* (line 488) only for an address that answered.
StoreAddress(stored, p) == IF p.found THEN p.address ELSE stored

\* The ping commands of the probes number `from` to `to`.
PingLog(pings, from, to) ==
    [k \in 1..(to - from + 1) |-> PingCmd(pings[from + k - 1].addr)]

\* Lines 461-490: the outcomes [net_ok, ping_address, scanned, props,
\* addresses, pings, log] of the connectivity stage when the stored address
\* is `stored`.  ping(None) issues no command and gives None.
Connectivity(stored, In) ==
    LET first == IF stored = None THEN { <<>> }
                 ELSE { <<Probe(stored, ok)>> : ok \in PingAnswers(In) }
    IN UNION {
         IF f # <<>> /\ f[1].ok
         THEN { [net_ok |-> TRUE, ping_address |-> stored, scanned |-> FALSE,
                 props |-> NoOutput, addresses |-> <<>>, pings |-> f,
                 log |-> <<PingCmd(stored)>>] }
         ELSE UNION { {
                [net_ok |-> p.found,
                 ping_address |-> StoreAddress(stored, p),
                 scanned |-> TRUE,
                 props |-> props,
                 addresses |-> FallbackAddresses(props),
                 pings |-> p.pings,
                 log |-> PingLog(f, 1, Len(f))
                         \o <<Cmd("shell", "getprop")>>
                         \o PingLog(p.pings, Len(f) + 1, Len(p.pings))]
                : p \in ProbeLoop(FallbackAddresses(props), 1, f, In) }
              : props \in In.propsOuts }
         : f \in first }

(***************************************************************************)
(* is_device_ready (lines 427-500)                                         *)
(*                                                                         *)
(* A frame is the call so far: the fields it has set, the commands it has  *)
(* issued, the exception it has raised and what it has seen.  Each stage   *)
(* maps a frame to the frames that can follow; a frame that has raised is  *)
(* left as it is by every later stage.                                     *)
(***************************************************************************)

\* Line 437 on the output of getprop ro.build.version.release: the leading
\* major.minor, in tenths, when the release starts with one.
ShortVersionMatch(text) ==
    CASE text = "2.3.6\n" -> [ok |-> TRUE, val |-> 23]
      [] text = "4.0.4\n" -> [ok |-> TRUE, val |-> 40]
      [] text = "4.1.2\n" -> [ok |-> TRUE, val |-> 41]
      [] text = "4.4.2\n" -> [ok |-> TRUE, val |-> 44]
      [] text = "5.0.2\n" -> [ok |-> TRUE, val |-> 50]
      [] text = "5.1.1\n" -> [ok |-> TRUE, val |-> 51]
      [] text = "6.0.1\n" -> [ok |-> TRUE, val |-> 60]
      [] text = "7.1.2\n" -> [ok |-> TRUE, val |-> 71]
      [] OTHER -> [ok |-> FALSE, val |-> 0]

BoolStr(b) == IF b THEN "true" ELSE "false"

\* The frame on entry (line 429).
EntryFrame ==
    [version |-> version, short_version |-> short_version, kernel |-> kernel,
     known_apps |-> known_apps, ping_address |-> ping_address,
     initialized |-> initialized,
     exc |-> "none", log |-> <<>>, is_ready |-> TRUE,
     one_time |-> FALSE, release |-> "skipped",
     battery |-> NoReading, gate |-> TRUE,
     rndis_ret |-> "skipped", simplert_ret |-> "skipped",
     conn |-> "skipped", scanned |-> FALSE, props |-> NoOutput,
     addresses |-> <<>>,
     pings |-> <<>>, setup |-> FALSE]

\* Lines 435-439: version and short_version after the release query
\* answered `out`, when they were v and sv.
ReleaseFields(out, v, sv) ==
    IF ~out.ok THEN [version |-> v, short_version |-> sv]
    ELSE LET m == ShortVersionMatch(out.text)
         IN [version |-> "Android " \o Strip(out.text),
             short_version |-> IF m.ok THEN m.val ELSE sv]

\* Lines 434-439 after cleanup_device left frame F.
VersionQuery(F, out) ==
    LET r == ReleaseFields(out, F.version, F.short_version)
    IN [F EXCEPT !.log = Append(@, Cmd("shell",
                                "getprop ro.build.version.release")),
                 !.release = BoolStr(out.ok),
                 !.version = r.version,
                 !.short_version = r.short_version]

\* Lines 430-439 with the test of line 430 dropped: the pass runs in
\* every call.
IdentityStageEveryCall(F, In) ==
    UNION {
      LET F1 == [F EXCEPT !.one_time = TRUE,
                          !.known_apps = c.known_apps,
                          !.log = <<Cmd("shell", "input keyevent 25")>>
                                  \o c.log,
                          !.exc = c.exc]
      IN IF c.exc # "none" THEN {F1}
         ELSE { VersionQuery(F1, out) : out \in In.versionOuts }
      : c \in CleanupDevice(F.known_apps, In) }

\* Lines 430-439: the one-time pass, run while version is None.
IdentityStage(F, In) ==
    IF F.version # None THEN {F}
    ELSE UNION {
           LET F1 == [F EXCEPT !.one_time = TRUE,
                               !.known_apps = c.known_apps,
                               !.log = <<Cmd("shell", "input keyevent 25")>>
                                       \o c.log,
                               !.exc = c.exc]
           IN IF c.exc # "none" THEN {F1}
              ELSE { VersionQuery(F1, out) : out \in In.versionOuts }
           : c \in CleanupDevice(F.known_apps, In) }

\* Lines 440-443.
KernelStage(F, In) ==
    IF F.exc # "none" \/ F.kernel # None THEN {F}
    ELSE { [F EXCEPT !.log = Append(@, Cmd("shell",
                               "getprop ro.com.google.clientidbase")),
                     !.kernel = IF out.ok THEN Strip(out.text) ELSE @]
           : out \in In.kernelOuts }

\* Lines 444-451.
BatteryStage(F, In) ==
    IF F.exc # "none" THEN {F}
    ELSE { LET battery == GetBatteryStats(out)
           IN [F EXCEPT !.log = Append(@, Cmd("shell", "dumpsys battery")),
                        !.battery = battery,
                        !.gate = BatteryGate(battery),
                        !.is_ready = BatteryGate(battery)]
           : out \in In.batteryOuts }

\* Lines 453-454.
RndisStage(F, In) ==
    IF F.exc # "none" \/ ~rndis.set THEN {F}
    ELSE { [F EXCEPT !.log = @ \o o.log,
                     !.exc = o.exc,
                     !.rndis_ret = IF o.exc = "none" THEN BoolStr(o.ret)
                                   ELSE "raised",
                     !.is_ready = o.ret]
           : o \in CheckRndis(rndis, F.short_version, F.kernel, In) }

\* Lines 455-458.
SimplertStage(F, In) ==
    IF F.exc # "none" \/ simplert = None THEN {F}
    ELSE { [F EXCEPT !.log = IF o.exc = "none" /\ ~o.ret
                             THEN Append(@ \o o.log, ResetSimplert)
                             ELSE @ \o o.log,
                     !.exc = o.exc,
                     !.simplert_ret = IF o.exc = "none" THEN BoolStr(o.ret)
                                      ELSE "raised",
                     !.is_ready = o.ret]
           : o \in CheckSimplert(In) }

\* Lines 460-495 with lines 491-495 dropped: is_ready stays as it was
\* when no address answered.
ConnectivityStageNoVerdict(F, In) ==
    IF F.exc # "none" \/ ~F.is_ready THEN {F}
    ELSE { [F EXCEPT !.log = @ \o c.log,
                     !.conn = BoolStr(c.net_ok),
                     !.scanned = c.scanned,
                     !.props = c.props,
                     !.addresses = c.addresses,
                     !.pings = c.pings,
                     !.ping_address = c.ping_address]
           : c \in Connectivity(F.ping_address, In) }

\* Lines 460-495 without the reset of lines 493-494.
ConnectivityStageNoReset(F, In) ==
    IF F.exc # "none" \/ ~F.is_ready THEN {F}
    ELSE { [F EXCEPT !.log = @ \o c.log,
                     !.conn = BoolStr(c.net_ok),
                     !.scanned = c.scanned,
                     !.props = c.props,
                     !.addresses = c.addresses,
                     !.pings = c.pings,
                     !.ping_address = c.ping_address,
                     !.is_ready = c.net_ok]
           : c \in Connectivity(F.ping_address, In) }

\* Lines 460-495.
ConnectivityStage(F, In) ==
    IF F.exc # "none" \/ ~F.is_ready THEN {F}
    ELSE { [F EXCEPT !.log = IF ~c.net_ok /\ simplert # None
                             THEN Append(@ \o c.log, ResetSimplert)
                             ELSE @ \o c.log,
                     !.conn = BoolStr(c.net_ok),
                     !.scanned = c.scanned,
                     !.props = c.props,
                     !.addresses = c.addresses,
                     !.pings = c.pings,
                     !.ping_address = c.ping_address,
                     !.is_ready = c.net_ok]
           : c \in Connectivity(F.ping_address, In) }

SuppressAlerts == Cmd("su", "pm disable com.android.cellbroadcastreceiver")

\* Lines 496-499 with the test of `initialized` dropped.
SetupStageEveryTime(F) ==
    IF F.exc = "none" /\ F.is_ready
    THEN [F EXCEPT !.initialized = TRUE, !.setup = TRUE,
                   !.log = Append(@, SuppressAlerts)]
    ELSE F

\* Lines 496-499.
SetupStage(F) ==
    IF F.exc = "none" /\ F.is_ready /\ ~F.initialized
    THEN [F EXCEPT !.initialized = TRUE, !.setup = TRUE,
                   !.log = Append(@, SuppressAlerts)]
    ELSE F

\* is_device_ready: the frames the call can end in.
IsDeviceReadyFrames(In) ==
    LET f1 == IdentityStage(EntryFrame, In)
        f2 == UNION { KernelStage(F, In) : F \in f1 }
        f3 == UNION { BatteryStage(F, In) : F \in f2 }
        f4 == UNION { RndisStage(F, In) : F \in f3 }
        f5 == UNION { SimplertStage(F, In) : F \in f4 }
        f6 == UNION { ConnectivityStage(F, In) : F \in f5 }
    IN { SetupStage(F) : F \in f6 }

\* A call of is_device_ready with the device outputs drawn from In.  A
\* call that raises keeps the assignments made before the exception.
IsDeviceReady(In) ==
    /\ pc = "idle"
    /\ \E F \in IsDeviceReadyFrames(In) :
         /\ version' = F.version
         /\ short_version' = F.short_version
         /\ kernel' = F.kernel
         /\ known_apps' = F.known_apps
         /\ ping_address' = F.ping_address
         /\ initialized' = F.initialized
         /\ call' = [op |-> "is_device_ready",
                     ret |-> F.exc = "none" /\ F.is_ready,
                     exc |-> F.exc, log |-> F.log,
                     pre |-> [version |-> version, kernel |-> kernel,
                              short_version |-> short_version,
                              ping_address |-> ping_address,
                              initialized |-> initialized,
                              known_apps |-> known_apps],
                     one_time |-> F.one_time, release |-> F.release,
                     battery |-> F.battery,
                     gate |-> F.gate, rndis_ret |-> F.rndis_ret,
                     simplert_ret |-> F.simplert_ret, conn |-> F.conn,
                     scanned |-> F.scanned, props |-> F.props,
                     addresses |-> F.addresses,
                     pings |-> F.pings, setup |-> F.setup]
         /\ alerts_sent' = Capped(alerts_sent + Count(SuppressAlerts, F.log))
         /\ ready_seen' = (ready_seen \/ (F.exc = "none" /\ F.is_ready))
    /\ pc' = "returned"
    /\ UNCHANGED <<rndis, simplert, last_bytes_rx, last_rndis>>

\* A call of check_rndis on an object with a bridge descriptor.
CheckRndisCall(In) ==
    /\ pc = "idle"
    /\ rndis.set
    /\ \E o \in CheckRndis(rndis, short_version, kernel, In) :
         /\ call' = [op |-> "check_rndis", ret |-> o.ret, exc |-> o.exc,
                     log |-> o.log, queries |-> o.queries,
                     usb |-> o.usb, link |-> o.link,
                     pre |-> [short_version |-> short_version,
                              kernel |-> kernel],
                     after |-> last_rndis]
         /\ last_rndis' = IF IfaceUp(o.queries[1]) THEN "up_at_entry"
                          ELSE "configured"
    /\ pc' = "returned"
    /\ UNCHANGED <<self_vars, alerts_sent, ready_seen>>

\* A call of cleanup_device.  `asked` holds the answers to the package
\* queries of the apps whose flag was not cached.
CleanupDeviceCall(In) ==
    /\ pc = "idle"
    /\ \E pkg \in In.pkgOuts, win \in In.winOuts :
         \E c \in CleanupDevice(known_apps, [In EXCEPT !.pkgOuts = {pkg},
                                                       !.winOuts = {win}]) :
           /\ known_apps' = c.known_apps
           /\ call' = [op |-> "cleanup_device", exc |-> c.exc, log |-> c.log,
                       pre |-> [known_apps |-> known_apps],
                       asked |-> [i \in 1..Len(KnownApps) |->
                                    IF known_apps[i] = "unknown" THEN pkg[i]
                                    ELSE NoOutput],
                       win |-> win]
    /\ pc' = "returned"
    /\ UNCHANGED <<rndis, simplert, ping_address, version, short_version,
                   kernel, initialized, last_bytes_rx, history>>

(***************************************************************************)
(* check_simplert one step at a time.  `elapsed` is the monotonic clock    *)
(* less the time end_time was set; every iteration advances it by the      *)
(* sleep at least.  The counters stop at MaxClock, which a call that       *)
(* honours the deadline never reaches.                                     *)
(***************************************************************************)
MaxClock == 2 * SimplertWait
Tick(n, d) == IF n + d > MaxClock THEN MaxClock ELSE n + d

\* Lines 412-418: the first tunnel check and, when it fails, the USB reset.
CheckSimplertEnter(In) ==
    /\ pc = "idle"
    /\ simplert # None
    /\ \E tun0 \in In.tunOuts :
         LET avail == IsTunInterfaceAvailable(tun0)
         IN /\ call' = [op |-> "check_simplert", first |-> avail,
                        is_ready |-> avail, seen |-> avail,
                        ret |-> avail, exc |-> "none",
                        entry |-> SimplertEntry(avail), last |-> <<>>,
                        polls |-> 0, started |-> 0, elapsed |-> 0]
            /\ pc' = IF avail THEN "returned" ELSE "polling"
    /\ UNCHANGED <<self_vars, history>>

\* Lines 419-422: the loop test holds and one iteration runs; it took dt
\* seconds.  An exception of dismiss_vpn_dialog leaves the call.
CheckSimplertPoll(In) ==
    /\ pc = "polling"
    /\ ~call.is_ready /\ ~DeadlinePassed(call.elapsed)
    /\ \E dt \in In.pollSecs, win \in In.winOuts, tun \in In.tunOuts :
         LET it == PollIteration(win, tun)
         IN /\ call' = [call EXCEPT !.is_ready = it.is_ready,
                                    !.seen = @ \/ it.is_ready,
                                    !.exc = it.exc,
                                    !.last = it.log,
                                    !.polls = Tick(@, 1),
                                    !.started = call.elapsed,
                                    !.elapsed = Tick(@, dt)]
            /\ pc' = IF it.exc # "none" THEN "returned" ELSE "polling"
    /\ UNCHANGED <<self_vars, history>>

\* Lines 419 and 423-425: the loop test fails; the call returns is_ready.
CheckSimplertExit ==
    /\ pc = "polling"
    /\ call.is_ready \/ DeadlinePassed(call.elapsed)
    /\ call' = [call EXCEPT !.ret = call.is_ready]
    /\ pc' = "returned"
    /\ UNCHANGED <<self_vars, history>>

(***************************************************************************)
(* run and wait_for_process (lines 40-62) as threads.  The waiting thread  *)
(* starts the timer, waits in communicate() and cancels the timer; the     *)
(* timer thread (threading.Timer) sleeps until the time limit or until it  *)
(* is cancelled, tests its `finished` event and, if that is not set,       *)
(* calls kill_proc; cancel() sets the event.  The process writes to its    *)
(* output and exits when it likes.  `call` holds the state of the three.   *)
(***************************************************************************)

\* What the process has written to its standard output so far.
Written == <<"", "List of devices", "List of devices attached\n">>

\* Line 44 fails: Popen raises and run has no handler for it.
SpawnFails ==
    [op |-> "run", exc |-> "OSError", ret |-> NoOutput, stdout |-> NoOutput,
     proc |-> "none", written |-> 1, timer |-> "none", finished |-> FALSE,
     w |-> "raised", timed_out |-> FALSE, cancelled |-> FALSE,
     comm_error |-> FALSE, exit_in_time |-> FALSE,
     killed_completed |-> FALSE, killed_after_cancel |-> FALSE]

\* Lines 44 and 49-53: the process runs, stdout is None, the timer is
\* started and the waiting thread enters communicate().
Spawned ==
    [SpawnFails EXCEPT !.exc = "none", !.proc = "running",
                       !.timer = "sleeping", !.w = "communicate"]

\* run (line 44) and wait_for_process up to line 54.
RunSpawn ==
    /\ pc = "idle"
    /\ \/ call' = SpawnFails /\ pc' = "returned"
       \/ call' = Spawned /\ pc' = "waiting"
    /\ UNCHANGED <<self_vars, history>>

RunCall == call.op = "run"

\* The process writes some more output.
ProcWrite ==
    /\ RunCall /\ call.proc = "running" /\ call.written < Len(Written)
    /\ call' = [call EXCEPT !.written = @ + 1]
    /\ UNCHANGED <<self_vars, history, pc>>

\* The process completes by itself.
ProcExit ==
    /\ RunCall /\ call.proc = "running"
    /\ call' = [call EXCEPT !.proc = "exited",
                            !.exit_in_time = ~call.timed_out]
    /\ UNCHANGED <<self_vars, history, pc>>

\* Timer.run: finished.wait(interval) ends, by the time limit or because
\* the event was set.
TimerWake ==
    /\ RunCall /\ call.timer = "sleeping"
    /\ call' = [call EXCEPT !.timer = "woken",
                            !.timed_out = ~call.finished]
    /\ UNCHANGED <<self_vars, history, pc>>

\* Timer.run: `if not self.finished.is_set()`.
TimerCheck ==
    /\ RunCall /\ call.timer = "woken"
    /\ call' = [call EXCEPT !.timer = IF call.finished THEN "done"
                                      ELSE "firing"]
    /\ UNCHANGED <<self_vars, history, pc>>

\* Timer.run: the function is called, kill_proc (line 50) kills the
\* process, and the event is set.
TimerKill ==
    /\ RunCall /\ call.timer = "firing"
    /\ call' = [call EXCEPT
                  !.timer = "done",
                  !.finished = TRUE,
                  !.proc = IF @ = "running" THEN "killed" ELSE @,
                  !.killed_completed =
                      @ \/ (call.proc = "exited" /\ call.exit_in_time),
                  !.killed_after_cancel =
                      @ \/ (call.proc = "exited" /\ call.cancelled)]
    /\ UNCHANGED <<self_vars, history, pc>>

\* Line 54: communicate() returns what the process wrote once it has
\* ended, by itself or killed.
WaitCommunicate ==
    /\ RunCall /\ call.w = "communicate"
    /\ call.proc \in {"exited", "killed"}
    /\ call' = [call EXCEPT !.w = "cancel",
                            !.stdout = Output(Written[call.written])]
    /\ UNCHANGED <<self_vars, history, pc>>

\* Lines 54 and 57-58: communicate() raises; stdout stays None.
WaitCommunicateFails ==
    /\ RunCall /\ call.w = "communicate"
    /\ call' = [call EXCEPT !.w = "cancel", !.comm_error = TRUE]
    /\ UNCHANGED <<self_vars, history, pc>>

\* Lines 59-61: timer.cancel().
WaitCancel ==
    /\ RunCall /\ call.w = "cancel"
    /\ call' = [call EXCEPT !.w = "return", !.finished = TRUE,
                            !.cancelled = TRUE]
    /\ UNCHANGED <<self_vars, history, pc>>

\* Lines 62 and 45: stdout goes back to the caller of run.
WaitReturn ==
    /\ RunCall /\ call.w = "return" /\ pc = "waiting"
    /\ call' = [call EXCEPT !.w = "returned", !.ret = call.stdout]
    /\ pc' = "returned"
    /\ UNCHANGED <<self_vars, history>>

\* The caller has taken the result and the timer thread has ended.
RunDone ==
    /\ RunCall /\ pc = "returned"
    /\ call.timer \in {"none", "done"}
    /\ pc' = "idle"
    /\ call' = Idle
    /\ UNCHANGED <<self_vars, history>>

TimerThread == TimerWake \/ TimerCheck \/ TimerKill

(***************************************************************************)
(* The caller takes the result; the object's fields stay.                  *)
(***************************************************************************)
Return ==
    /\ pc = "returned"
    /\ pc' = "idle"
    /\ call' = Idle
    /\ UNCHANGED <<self_vars, history>>

\* Adb.__init__ (lines 16-38): the fields that no call has set yet.
InitCommon ==
    /\ ping_address = None
    /\ initialized = FALSE
    /\ last_bytes_rx = 0
    /\ pc = "idle"
    /\ call = Idle
    /\ alerts_sent = 0
    /\ ready_seen = FALSE
    /\ last_rndis = "none"

\* Adb.__init__ (lines 16-38) but for the bridge options.
InitFields ==
    /\ InitCommon
    /\ version = None
    /\ short_version = NoVersion
    /\ kernel = None

\* Adb.__init__ with no bridge configured.
InitPlain ==
    /\ InitFields
    /\ rndis = NoBridge
    /\ simplert = None
    /\ known_apps = [i \in 1..Len(KnownApps) |-> "unknown"]

(***************************************************************************)
(* The outputs the device commands are given.                              *)
(***************************************************************************)

LoLine == IfLine("lo", "UNKNOWN")

BatteryOuts ==
    {NoOutput,
     Output(<<BatLine("status", 2), BatLine("level", 49),
              BatLine("temperature", 360)>>),
     Output(<<BatLine("level", 50), BatLine("temperature", 360)>>),
     Output(<<BatLine("level", 50), BatLine("temperature", 361)>>)}

WinOuts ==
    {NoOutput, Output("Window #1 com.android.launcher"),
     Output("Window #3 Application Error: com.android.chrome"),
     Output("Window #4 com.android.vpndialogs")}

PingOuts == {NoOutput, Output(<<PingOther>>), Output(<<PingOther, RttLine(12)>>)}

ProbeAddrs == {"10.0.0.1", "1.1.1.1", "8.8.8.8"}
PropLines ==
    {PropLine(k, v) : k \in {"net.dns", "dhcp.dns", "dhcp.gateway"},
                      v \in ProbeAddrs}
    \cup {PropLine("ro.product.model", "Nexus")}

\* Bound of the property listings explored.
MaxProps == 2
PropsOuts == {NoOutput} \cup {Output(l) : l \in SeqsUpTo(PropLines, MaxProps)}

\* The outputs of the readiness specification: every command can fail, and
\* every branch of the call can be taken.
Device ==
    [pkgOuts |-> {[i \in 1..Len(KnownApps) |-> NoOutput],
                  [i \in 1..Len(KnownApps) |->
                     IF i = 1 THEN Output("    versionName=2.1\n")
                     ELSE Output("\n")]},
     winOuts |-> WinOuts,
     versionOuts |-> {NoOutput, Output("6.0.1\n")},
     kernelOuts |-> {NoOutput, Output("android-samsung\n")},
     batteryOuts |-> BatteryOuts,
     ifaceOuts |-> {NoOutput, Output(<<LoLine>>),
                    Output(<<LoLine, IfLine("rndis0", "UP"),
                             InetLine("192.168.1.5")>>)},
     usbOuts |-> {NoOutput, Output("rndis,adb\n"), Output("adb\n")},
     linkOuts |-> {NoOutput, Output(<<LoLine, IfLine("eth0", "UP")>>)},
     tunOuts |-> {NoOutput, Output(<<LoLine, TunLine>>)},
     pollSecs |-> {SimplertWait},
     pingOuts |-> PingOuts,
     propsOuts |-> {NoOutput,
                    Output(<<PropLine("net.dns", "1.1.1.1"),
                             PropLine("dhcp.gateway", "10.0.0.1")>>)}]

\* Adb.__init__ for every configuration of the two bridge options.
Init ==
    /\ InitFields
    /\ rndis \in {NoBridge, DhcpDescriptor, StaticDescriptor, MalformedDescriptor}
    /\ simplert \in {None, "usb0,8.8.8.8"}
    /\ known_apps = [i \in 1..Len(KnownApps) |-> "unknown"]

Next == IsDeviceReady(Device) \/ Return
Spec == Init /\ [][Next]_vars

\* The readiness check with no bridge on a device that answers the identity
\* and battery queries, over every property listing of up to MaxProps lines.
DeviceProps ==
    [Device EXCEPT
       !.propsOuts = PropsOuts,
       !.pkgOuts = {[i \in 1..Len(KnownApps) |-> Output("\n")]},
       !.winOuts = {Output("Window #1 com.android.launcher")},
       !.versionOuts = {Output("6.0.1\n")},
       !.kernelOuts = {Output("android-samsung\n")},
       !.batteryOuts = {NoOutput,
                        Output(<<BatLine("level", 50),
                                 BatLine("temperature", 361)>>)}]

NextConn == IsDeviceReady(DeviceProps) \/ Return
SpecConn == InitPlain /\ [][NextConn]_vars

\* check_rndis on its own, over more interface listings, for every bridge
\* descriptor and every device identity is_device_ready can have stored.
DeviceRndis ==
    [Device EXCEPT
       !.ifaceOuts = {NoOutput, Output(<<LoLine>>),
                      Output(<<LoLine, IfLine("rndis0", "DOWN")>>),
                      Output(<<IfLine("rndis0", "UP")>>),
                      Output(<<IfLine("usb0", "DOWN"), InetLine("10.1.1.7")>>),
                      Output(<<LoLine, IfLine("rndis0", "UP"),
                               InetLine("192.168.1.5")>>),
                      Output(<<IfLine("usb0", "UP"), InetLine("10.1.1.7"),
                               IfLine("eth0", "UP")>>)},
       !.linkOuts = {NoOutput,
                     Output(<<LoLine, IfLine("eth0", "UP"),
                              IfLine("wlan0", "UP"), IfLine("rndis0", "UP")>>)}]

ReleaseOuts ==
    {Output("2.3.6\n"), Output("4.0.4\n"), Output("4.1.2\n"),
     Output("4.4.2\n"), Output("5.0.2\n"), Output("5.1.1\n"),
     Output("6.0.1\n"), Output("7.1.2\n"), Output("Q\n")}

InitRndis ==
    /\ InitCommon
    /\ rndis \in {DhcpDescriptor, StaticDescriptor, MalformedDescriptor}
    /\ simplert = None
    /\ known_apps = [i \in 1..Len(KnownApps) |-> "absent"]
    /\ kernel \in {None, "android-samsung", "android-google"}
    /\ \E out \in ReleaseOuts \cup {NoOutput} :
         LET r == ReleaseFields(out, None, NoVersion)
         IN version = r.version /\ short_version = r.short_version

NextRndis == CheckRndisCall(DeviceRndis) \/ Return
SpecRndis == InitRndis /\ [][NextRndis]_vars

NextIface == GetRndisInterfaceCall \/ Return
SpecIface == InitPlain /\ [][NextIface]_vars

NextBytes == GetBytesRx \/ Return
SpecBytes == InitPlain /\ [][NextBytes]_vars

\* check_simplert with the userspace bridge configured.  An iteration of
\* the polling loop takes the sleep, or as long as PollSecs says.  The
\* steps of a call are taken one after the other until it returns.
DeviceSimplert == [Device EXCEPT !.pollSecs = {SleepSecs} \cup PollSecs]

InitSimplert ==
    /\ InitFields
    /\ rndis = NoBridge
    /\ simplert = "usb0,8.8.8.8"
    /\ known_apps = [i \in 1..Len(KnownApps) |-> "unknown"]

NextSimplert ==
    \/ CheckSimplertEnter(DeviceSimplert)
    \/ CheckSimplertPoll(DeviceSimplert)
    \/ CheckSimplertExit
    \/ Return
SpecSimplert ==
    /\ InitSimplert
    /\ [][NextSimplert]_vars
    /\ WF_vars(CheckSimplertPoll(DeviceSimplert) \/ CheckSimplertExit)

\* The readiness check with no bridge on a device whose release and
\* kernel queries can fail, and can answer differently from call to call.
DeviceIdentity ==
    [Device EXCEPT
       !.versionOuts = {NoOutput, Output("6.0.1\n"), Output("5.1.1\n"),
                        Output("Q\n")},
       !.kernelOuts = {NoOutput, Output("android-samsung\n"),
                       Output("android-google\n")},
       !.batteryOuts = {NoOutput},
       !.pingOuts = {NoOutput, Output(<<PingOther, RttLine(12)>>)},
       !.propsOuts = {NoOutput}]

NextIdentity == IsDeviceReady(DeviceIdentity) \/ Return
SpecIdentity == InitPlain /\ [][NextIdentity]_vars

\* run: the process, the waiting thread and the timer thread, in every
\* interleaving.  Each thread goes on while it can; the time limit of a
\* timer that is not cancelled does pass.
NextGuard ==
    \/ RunSpawn
    \/ ProcWrite \/ ProcExit
    \/ TimerWake \/ TimerCheck \/ TimerKill
    \/ WaitCommunicate \/ WaitCommunicateFails \/ WaitCancel \/ WaitReturn
    \/ RunDone
SpecGuard ==
    /\ InitPlain
    /\ [][NextGuard]_vars
    /\ WF_vars(TimerThread)
    /\ WF_vars(WaitCommunicate \/ WaitCancel \/ WaitReturn)

\* cleanup_device called again and again, every package query answering
\* with nothing, with an empty line or with a version line, or failing.
DeviceCleanup ==
    [Device EXCEPT
       !.pkgOuts = [1..Len(KnownApps) ->
                      {NoOutput, Output("\n"), Output("    versionName=2.1\n")}]]

NextCleanup == CleanupDeviceCall(DeviceCleanup) \/ Return
SpecCleanup == InitPlain /\ [][NextCleanup]_vars

(***************************************************************************)
(* The claims.                                                             *)
(***************************************************************************)

ReadyCall == call.op = "is_device_ready"

LowBattery == call.battery.has_level /\ call.battery.level < 50
HighTemp == call.battery.has_temp /\ call.battery.temp > 360

\* C1: a call of is_device_ready whose battery reading has a level below 50
\* or a temperature above 36.0 returns not-ready, whatever the bridge
\* configuration and the bridge check and pings give; a level of exactly
\* 50, a temperature of exactly 36.0 and a missing reading pass the gate.
C1_BatteryGateBlocks ==
    ReadyCall =>
      /\ (LowBattery \/ HighTemp) => ~call.ret
      /\ (~LowBattery /\ ~HighTemp) => call.gate

\* C2: when the battery level read is below 50 the call attempts no bridge
\* or network step: no check_rndis, no check_simplert, no ping, no
\* property scan.
C2_LowBatteryNoBridgeStep ==
    (ReadyCall /\ LowBattery) =>
      /\ call.rndis_ret = "skipped"
      /\ call.simplert_ret = "skipped"
      /\ call.conn = "skipped"
      /\ \A i \in 1..Len(call.log) :
           /\ call.log[i].cmd # "ping"
           /\ call.log[i] # IpAddressShow
           /\ call.log[i] # Cmd("shell", "getprop")

\* C3: over any sequence of is_device_ready calls the alert-suppression
\* command is issued exactly once, in the first call that returns ready,
\* never in a call that returns not-ready nor in a later ready call;
\* initialized is false until that call and true ever after.
C3_AlertSuppressionOnce ==
    /\ alerts_sent = (IF ready_seen THEN 1 ELSE 0)
    /\ initialized = ready_seen
    /\ ReadyCall =>
         /\ Count(SuppressAlerts, call.log)
              = (IF call.ret /\ ~call.pre.initialized THEN 1 ELSE 0)
         /\ call.setup = (call.ret /\ ~call.pre.initialized)
         /\ initialized = (call.pre.initialized \/ call.ret)

\* A later ready call, after the alert suppression was issued, that did not
\* issue it again.
C3_Witness ==
    /\ ReadyCall /\ call.ret /\ call.pre.initialized
    /\ alerts_sent = 1
    /\ ~InSeq(SuppressAlerts, call.log)

RndisCall == call.op = "check_rndis"

\* The first interface query of the call found rndis0 or usb0 up with an
\* address.
UpAtEntry ==
    /\ call.queries[1].interface \in {"rndis0", "usb0"}
    /\ call.queries[1].if_state = "up"
    /\ call.queries[1].address # None

\* C4: when the interface query finds a tether interface up with an
\* address, check_rndis returns ready and issues nothing but that query,
\* in DHCP and in static mode, also when it is called twice in a row.
C4_RndisIdempotent ==
    (RndisCall /\ UpAtEntry) =>
      /\ call.ret
      /\ call.exc = "none"
      /\ call.log = <<IpAddressShow>>

\* The second of two calls in a row that found the interface up, with a
\* static descriptor.
C4_Witness ==
    /\ RndisCall /\ UpAtEntry
    /\ call.after = "up_at_entry"
    /\ StaticAddress(rndis).ok
    /\ call.ret /\ Len(call.log) = 1

\* The probes of the fallback pass: those after the probe of the stored
\* address, if there was one.
FallbackProbes ==
    IF call.pre.ping_address = None THEN call.pings
    ELSE SubSeq(call.pings, 2, Len(call.pings))

IsDnsLine(l) == l.key \in {"net.dns", "dhcp.dns"}

RECURSIVE Ascending(_)
Ascending(S) ==
    IF S = {} THEN <<>>
    ELSE LET m == CHOOSE x \in S : \A y \in S : x <= y
         IN <<m>> \o Ascending(S \ {m})

\* What the claim expects to be probed for a property listing: the gateway
\* (of the last gateway line), the DNS servers at their first mention, in
\* the order met, then 8.8.8.8.
ExpectedProbes(props) ==
    LET text == IF props.ok THEN props.text ELSE <<>>
        gw == {i \in 1..Len(text) : text[i].key = "dhcp.gateway"}
        dns == {i \in 1..Len(text) :
                  /\ IsDnsLine(text[i])
                  /\ \A j \in 1..(i - 1) :
                       ~(IsDnsLine(text[j]) /\ text[j].val = text[i].val)}
        first == Ascending(dns)
    IN (IF gw = {} THEN <<>>
        ELSE <<text[CHOOSE i \in gw : \A j \in gw : j <= i].val>>)
       \o [k \in 1..Len(first) |-> text[first[k]].val]
       \o <<"8.8.8.8">>

\* The fallback pass probes the expected addresses in order and stops at
\* the first that answers.
FallbackInOrder ==
    LET fb == FallbackProbes
        exp == ExpectedProbes(call.props)
    IN /\ Len(fb) <= Len(exp)
       /\ \A i \in 1..Len(fb) : fb[i].addr = exp[i]
       /\ \A i \in 1..(Len(fb) - 1) : ~fb[i].ok
       /\ Len(fb) < Len(exp) => (fb # <<>> /\ fb[Len(fb)].ok)

\* The fallback pass runs exactly when the stage is reached and the stored
\* address is missing or does not answer.
FallbackWhenStoredFails ==
    call.scanned =
      (/\ call.conn # "skipped"
       /\ (call.pre.ping_address = None \/ ~call.pings[1].ok))

\* C5 as claimed: gateway, then the DNS servers without duplicates, then
\* 8.8.8.8, stopping at the first answer, and no address probed twice in
\* one fallback pass.
C5_FallbackOrderNoRepeat ==
    ReadyCall =>
      /\ FallbackWhenStoredFails
      /\ call.scanned =>
           /\ FallbackInOrder
           /\ \A i, j \in 1..Len(FallbackProbes) :
                i # j => FallbackProbes[i].addr # FallbackProbes[j].addr

\* C5 as amended: the same order and stop, but only the DNS servers are
\* freed of duplicates among themselves: an address is probed twice only as
\* the gateway and again as a DNS server or as 8.8.8.8, or as a DNS server
\* and again as the closing 8.8.8.8.
C5_FallbackOrder ==
    ReadyCall =>
      /\ FallbackWhenStoredFails
      /\ call.scanned =>
           /\ FallbackInOrder
           /\ \A i, j \in 1..Len(FallbackProbes) :
                (i < j /\ FallbackProbes[i].addr = FallbackProbes[j].addr) =>
                  \/ (i = 1 /\ \E k \in 1..Len(call.props.text) :
                                 call.props.text[k].key = "dhcp.gateway")
                  \/ (j = Len(ExpectedProbes(call.props))
                      /\ FallbackProbes[j].addr = "8.8.8.8")

\* A fallback pass over a gateway and a DNS server in which only the
\* closing 8.8.8.8 answered.
C5_Witness ==
    /\ ReadyCall /\ call.scanned /\ call.props.ok
    /\ Len(FallbackProbes) = 3
    /\ (\E k \in 1..Len(call.props.text) :
          call.props.text[k].key = "dhcp.gateway")
    /\ FallbackProbes[3] = Probe("8.8.8.8", TRUE)
    /\ ping_address = "8.8.8.8"

\* C6: the stored address is probed first whenever the connectivity stage
\* is reached; if it answers there is no property scan and no other ping
\* and it stays; it is overwritten only with an address that answered in
\* this call, and stays when nothing answers or the stage is not reached.
C6_StoredAddressFrame ==
    ReadyCall =>
      LET stored == call.pre.ping_address
          reached == call.conn # "skipped"
          scans == Count(Cmd("shell", "getprop"), call.log)
          npings == Cardinality({i \in 1..Len(call.log) :
                                   call.log[i].cmd = "ping"})
      IN /\ (reached /\ stored # None) =>
              /\ call.pings # <<>>
              /\ call.pings[1].addr = stored
              /\ \E i \in 1..Len(call.log) :
                   /\ call.log[i] = PingCmd(stored)
                   /\ \A j \in 1..(i - 1) :
                        /\ call.log[j].cmd # "ping"
                        /\ call.log[j] # Cmd("shell", "getprop")
         /\ (reached /\ stored # None /\ call.pings[1].ok) =>
              /\ scans = 0 /\ npings = 1 /\ ~call.scanned
              /\ ping_address = stored
         /\ ping_address # stored =>
              \E i \in 1..Len(call.pings) :
                call.pings[i] = Probe(ping_address, TRUE)
         /\ (~reached \/ \A i \in 1..Len(call.pings) : ~call.pings[i].ok) =>
              ping_address = stored
         /\ npings = Len(call.pings)
         /\ ~reached => npings = 0

\* The stored address did not answer and was replaced by a fallback address
\* that did.
C6_Witness ==
    /\ ReadyCall /\ call.pre.ping_address # None
    /\ call.conn # "skipped"
    /\ ~call.pings[1].ok
    /\ ping_address # call.pre.ping_address
    /\ call.ret

\* C7: every delta get_bytes_rx returns is non-negative, also when the
\* counter is lower than the previous reading or cannot be read; and for
\* readings c1 <= c2 the second call returns c2 - c1.
C7_DeltaNonNegative ==
    call.op = "get_bytes_rx" =>
      /\ call.ret >= 0
      /\ call.last <= call.bytes_rx => call.ret = call.bytes_rx - call.last

IfaceCall == call.op = "get_rndis_interface"

\* The line the claim expects to be selected: the last rndis0 line if there
\* is one, else the first usb0 line, else none (0).
SelectedLine(text) ==
    LET r == {i \in 1..Len(text) : text[i].t = "if" /\ text[i].name = "rndis0"}
        u == {i \in 1..Len(text) : text[i].t = "if" /\ text[i].name = "usb0"}
    IN IF r # {} THEN CHOOSE i \in r : \A j \in r : j <= i
       ELSE IF u # {} THEN CHOOSE i \in u : \A j \in u : i <= j
       ELSE 0

\* The address lines that follow line k with no interface line in between.
OwnInetLines(text, k) ==
    {i \in (k + 1)..Len(text) :
       /\ text[i].t = "inet"
       /\ \A j \in (k + 1)..i : text[j].t # "if"}

\* C8: get_rndis_interface returns rndis0 with its own state and address
\* whenever an rndis0 line is listed, before or after usb0; usb0 only when
\* no rndis0 line is listed; and the address only from an inet line that
\* follows the selected line with no interface line in between.
C8_InterfaceDiscovery ==
    IfaceCall =>
      LET text == IF call.out.ok THEN call.out.text ELSE <<>>
          k == SelectedLine(text)
          own == OwnInetLines(text, k)
      IN IF k = 0
         THEN call.ret = [interface |-> None, if_state |-> None,
                          address |-> None]
         ELSE /\ call.ret.interface = text[k].name
              /\ call.ret.if_state = (IF text[k].state = "UP" THEN "up"
                                      ELSE "down")
              /\ call.ret.address =
                   (IF own = {} THEN None
                    ELSE text[CHOOSE i \in own : \A j \in own : j <= i].addr)

\* usb0 (down, with an address of its own) listed before rndis0 (up, with
\* 192.168.1.5): rndis0, up, 192.168.1.5 is returned.
C8_Witness ==
    /\ IfaceCall /\ call.out.ok
    /\ call.out.text = <<IfLine("usb0", "DOWN"), InetLine("10.1.1.7"),
                         IfLine("rndis0", "UP"), InetLine("192.168.1.5")>>
    /\ call.ret = [interface |-> "rndis0", if_state |-> "up",
                   address |-> "192.168.1.5"]

\* C9: check_rndis returns a boolean and never raises, whatever its
\* commands answer.
C9_CheckRndisNeverRaises == RndisCall => call.exc = "none"

\* C10: is_device_ready never raises, whatever its commands answer.
C10_IsDeviceReadyNeverRaises == ReadyCall => call.exc = "none"

\* C11: for every configuration of the rndis and simplert options a call
\* of is_device_ready runs at most one of check_rndis and check_simplert,
\* so the result of one bridge routine is never replaced by the other's.
C11_OneBridgePerCall ==
    ReadyCall =>
      ~(call.rndis_ret # "skipped" /\ call.simplert_ret # "skipped")

SimplertCall == call.op = "check_simplert"

SleepCmd == Cmd("host", "sleep 1")
WindowDump == Cmd("shell", "dumpsys window windows")

\* Where a command first occurs in a sequence of commands (0: nowhere).
FirstAt(x, q) ==
    IF InSeq(x, q) THEN CHOOSE i \in 1..Len(q) :
                          q[i] = x /\ \A j \in 1..(i - 1) : q[j] # x
    ELSE 0

\* C12, at every point of a check_simplert call: iterations are as many
\* as the clock allows (each takes a second at least) and none starts at
\* or after the 30-second deadline; an iteration sleeps, runs the dialog
\* dismissal and only then checks the tunnel again; a call returns ready
\* exactly when one of its tunnel checks saw tun0, and returns not-ready
\* only once 30 seconds have passed.  The only other way out of the loop
\* is the exception of dismiss_vpn_dialog on a missing window dump.
C12_LoopByClock ==
    SimplertCall =>
      /\ call.polls * SleepSecs <= call.elapsed
      /\ call.polls > 0 =>
           /\ call.started < 30
           /\ Len(call.last) >= 2
           /\ call.last[1] = SleepCmd /\ call.last[2] = WindowDump
           /\ call.exc = "none" =>
                /\ call.last[Len(call.last)] = IpAddressShow
                /\ FirstAt(WindowDump, call.last)
                     < FirstAt(IpAddressShow, call.last)
                /\ Count(IpAddressShow, call.last) = 1
           /\ call.exc # "none" => call.last = <<SleepCmd, WindowDump>>
      /\ (pc = "returned" /\ call.exc = "none") =>
           /\ call.ret = call.seen
           /\ ~call.ret => call.elapsed >= 30 /\ call.polls > 0
      /\ call.exc # "none" => pc = "returned" /\ ~call.seen

\* C12: check_simplert always terminates: the polling loop is left, and
\* at every point of the call C12_LoopByClock holds.
C12_SimplertTerminates ==
    /\ []C12_LoopByClock
    /\ (pc = "polling") ~> (pc = "returned")

\* The tunnel never appeared: the call polled more than once, until the
\* deadline had passed, and returned not-ready.
C12_Witness ==
    /\ SimplertCall /\ pc = "returned" /\ call.exc = "none" /\ ~call.ret
    /\ call.polls > 1 /\ call.elapsed >= 30 /\ ~call.seen

UsbReset == Cmd("su", "setprop sys.usb.config adb")

\* C15: when the first tunnel check of check_simplert finds tun0 the call
\* returns ready at once and has issued nothing but that check: no USB
\* mode command, no wait-for-device, no sleep, no dialog dismissal.  When
\* the first check finds no tun0, the USB mode is set to adb and
\* wait-for-device is issued, in this order, before the first poll.
C15_SimplertIdempotent ==
    SimplertCall =>
      /\ call.first =>
           /\ pc = "returned" /\ call.ret /\ call.exc = "none"
           /\ call.entry = <<IpAddressShow>>
           /\ call.last = <<>> /\ call.polls = 0 /\ call.elapsed = 0
      /\ ~call.first =>
           /\ call.entry = <<IpAddressShow, UsbReset, WaitForDevice>>
           /\ pc = "returned" => call.polls > 0
      /\ ~InSeq(UsbReset, call.last) /\ ~InSeq(WaitForDevice, call.last)

\* A call on a bridge that was already up.
C15_Witness ==
    /\ SimplertCall /\ pc = "returned" /\ call.first /\ call.ret
    /\ Len(call.entry) = 1

\* The interface query after tethering was enabled found a tether
\* interface.
TetherFound ==
    /\ RndisCall /\ call.exc = "none"
    /\ Len(call.queries) >= 2 /\ call.queries[2].interface # None

LinkDown(name) == Cmd("su", "ip link set " \o name \o " down")

\* The commands of the call between `ip link show` and the address setup
\* (static mode) or the DHCP request.
LinkStepCmds ==
    LET from == FirstAt(Cmd("su", "ip link show"), call.log)
        rule == FirstAt(Cmd("su", "ip rule add from all lookup main"), call.log)
        to == IF rule > 0 THEN rule - 1
              ELSE IF call.log[Len(call.log)].arg
                        = "netcfg " \o call.queries[2].interface \o " dhcp"
              THEN Len(call.log) - 1
              ELSE Len(call.log)
    IN [k \in 1..(to - from) |-> call.log[from + k]]

Wlan(name) == name \in {"wlan0", "wlan1"}

\* C13: when check_rndis finds a tether interface after enabling
\* tethering, it disables Wi-Fi, and of the interfaces that `ip link show`
\* lists it takes down exactly those that are not the tether interface,
\* not lo and not a wlan interface.
C13_OtherInterfacesDown ==
    TetherFound =>
      /\ InSeq(Cmd("su", "svc wifi disable"), call.log)
      /\ call.link.ok =>
           \A k \in 1..Len(call.link.text) :
             LET l == call.link.text[k]
             IN l.t = "if" =>
                  (InSeq(LinkDown(l.name), LinkStepCmds)
                     <=> (/\ l.name # call.queries[2].interface
                          /\ l.name # "lo"
                          /\ ~Wlan(l.name)))

\* C14: with the userspace bridge configured, a call of is_device_ready
\* that returns not-ready has issued the bridge reset as its last command,
\* both after a failed check_simplert and after a connectivity stage in
\* which no address answered; a call that returns ready has issued none.
C14_ResetBeforeNotReady ==
    (ReadyCall /\ simplert # None /\ call.exc = "none") =>
      /\ ~call.ret =>
           /\ Count(ResetSimplert, call.log) = 1
           /\ call.log[Len(call.log)] = ResetSimplert
           /\ call.simplert_ret = "false" \/ call.conn = "false"
      /\ call.ret => ~InSeq(ResetSimplert, call.log)

\* The bridge came up but no address answered: the call reset the bridge
\* and returned not-ready.
C14_Witness ==
    /\ ReadyCall /\ simplert # None /\ call.exc = "none" /\ ~call.ret
    /\ call.simplert_ret = "true" /\ call.conn = "false"
    /\ Len(call.pings) > 1
    /\ call.log[Len(call.log)] = ResetSimplert

\* The threshold table of the tether function codes: <<lowest version in
\* tenths, code>>.
TetherTable(kern) ==
    {<<60, IF kern = "android-samsung" THEN "41" ELSE "30">>,
     <<51, "31">>, <<50, "30">>, <<44, "34">>, <<41, "33">>, <<40, "32">>}

\* The code of the highest row the version reaches; the code of the 4.4
\* row when it reaches none or is unknown.
ExpectedTether(sv, kern) ==
    LET hit == {r \in TetherTable(kern) : sv # NoVersion /\ sv >= r[1]}
    IN IF hit = {} THEN "34"
       ELSE (CHOOSE r \in hit : \A q \in hit : q[1] <= r[1])[2]

TetherCall(code) == Cmd("su", "service call connectivity " \o code \o " i32 1")
TetherCalls == {TetherCall(c) : c \in {"30", "31", "32", "33", "34", "41"}}

\* The call did not find the interface up and has a usable descriptor.
Configuring ==
    /\ RndisCall /\ ~UpAtEntry
    /\ IsDhcp(rndis) \/ StaticAddress(rndis).ok

\* C16: a check_rndis call that configures the bridge issues exactly one
\* `service call connectivity <code> i32 1`, with the code of the highest
\* threshold row that the short version reaches (6.0: 41 on an
\* android-samsung kernel, else 30; 5.1: 31; 5.0: 30; 4.4: 34; 4.1: 33;
\* 4.0: 32) and the code of the 4.4 row for a version below 4.0 or
\* unknown.  A call that does not configure issues none.
C16_TetherFunctionTable ==
    RndisCall =>
      LET issued == {k \in 1..Len(call.log) : call.log[k] \in TetherCalls}
      IN IF Configuring /\ call.exc = "none"
         THEN /\ Cardinality(issued) = 1
              /\ \A k \in issued :
                   call.log[k] = TetherCall(ExpectedTether(call.pre.short_version,
                                                           call.pre.kernel))
         ELSE issued = {}

\* A configuring call on a 6.0 device with the android-samsung kernel.
C16_Witness ==
    /\ Configuring /\ call.exc = "none"
    /\ call.pre.short_version = 60 /\ call.pre.kernel = "android-samsung"
    /\ InSeq(TetherCall("41"), call.log)

UsbRndis == Cmd("su", "setprop sys.usb.config rndis,adb")

\* The sys.usb.config property read by the call was already rndis,adb.
AlreadyRndis == call.usb.ok /\ call.usb.text = "rndis,adb\n"

\* C17: a check_rndis call that configures the bridge sets the USB mode
\* (setprop sys.usb.config rndis,adb, then wait-for-device) exactly when
\* the sys.usb.config value it read is not already rndis,adb; when it is,
\* no USB mode command is issued and tethering is enabled all the same.
C17_UsbModeOnlyWhenNeeded ==
    (Configuring /\ call.exc = "none") =>
      LET at == FirstAt(UsbRndis, call.log)
      IN /\ call.log[2] = Cmd("shell", "getprop sys.usb.config")
         /\ AlreadyRndis =>
              /\ at = 0
              /\ call.log[3] \in TetherCalls
              /\ call.log[4] = WaitForDevice
         /\ ~AlreadyRndis =>
              /\ at = 3 /\ Count(UsbRndis, call.log) = 1
              /\ call.log[4] = WaitForDevice
              /\ call.log[5] \in TetherCalls

\* A configuring call on a device whose USB mode was already rndis,adb.
C17_Witness ==
    /\ Configuring /\ call.exc = "none" /\ AlreadyRndis
    /\ ~InSeq(UsbRndis, call.log)
    /\ \E k \in 1..Len(call.log) : call.log[k] \in TetherCalls

\* A step leaves a known version and a known kernel as they are, and
\* changes short_version only together with setting version.
IdentityStep ==
    /\ version # None => version' = version
    /\ kernel # None => kernel' = kernel
    /\ short_version' # short_version => (version = None /\ version' # None)

VolumeDown == Cmd("shell", "input keyevent 25")

\* The one-time pass (volume-down key, cleanup_device) ran in the call
\* exactly if version was unknown on entry, and version is known from the
\* call on whose release query answered.
OneTimePass ==
    ReadyCall =>
      /\ call.one_time <=> (call.pre.version = None)
      /\ InSeq(VolumeDown, call.log) <=> (call.pre.version = None)
      /\ InSeq(Cmd("shell", "rm -rf /sdcard/Download/*"), call.log)
           => (call.pre.version = None)
      /\ call.pre.version = None =>
           /\ call.log[1] = VolumeDown
           /\ call.log[2] = Cmd("su", "service call notification 1")
      /\ (version # None) <=> (call.pre.version # None \/ call.release = "true")
      /\ call.release # "skipped" => call.pre.version = None

\* C18: over any sequence of is_device_ready calls, version never changes
\* once set, kernel never changes once set, short_version is assigned only
\* in the call that sets version, and the one-time pass runs in a call
\* exactly if version was unknown on its entry.
C18_IdentityWriteOnce == [][IdentityStep]_vars /\ []OneTimePass

\* A later call, which found version and kernel set and cleanup_device
\* done, and left the pass out.
C18_Witness ==
    /\ ReadyCall /\ call.pre.version # None /\ call.pre.kernel # None
    /\ ~call.one_time /\ ~InSeq(VolumeDown, call.log)
    /\ version = call.pre.version /\ short_version = call.pre.short_version
    /\ call.pre.known_apps[1] # "unknown"

\* An interface query result that shows a tether interface up with an
\* address.
ObservedUp(q) ==
    /\ q.interface \in {"rndis0", "usb0"}
    /\ q.if_state = "up"
    /\ q.address # None

ProxyClear == Cmd("su", "setprop \"net.gprs.http-proxy\" \"\"")

\* C19: check_rndis returns ready only if the last interface query of the
\* call observed a tether interface up with an address.  In static mode,
\* after the address, route, DNS and proxy commands, the call re-queries
\* and returns ready exactly if that query observed so.  A malformed
\* static descriptor with no interface up at entry gives not-ready and
\* nothing but the first query.
C19_ReadyOnlyWhenObserved ==
    (RndisCall /\ call.exc = "none") =>
      LET n == Len(call.queries)
          m == Len(call.log)
      IN /\ call.ret => ObservedUp(call.queries[n])
         /\ InSeq(ProxyClear, call.log) =>
              /\ StaticAddress(rndis).ok /\ n = 3
              /\ call.log[m - 1] = ProxyClear
              /\ call.log[m] = IpAddressShow
              /\ call.ret <=> ObservedUp(call.queries[3])
         /\ (StaticAddress(rndis).ok /\ n >= 2
               /\ call.queries[2].interface # None) =>
              InSeq(ProxyClear, call.log)
         /\ (~IsDhcp(rndis) /\ ~StaticAddress(rndis).ok /\ ~UpAtEntry) =>
              /\ ~call.ret
              /\ call.log = <<IpAddressShow>>

\* A static-mode call that found the interface down, configured it and
\* saw it up with an address in the final query.
C19_Witness ==
    /\ RndisCall /\ call.exc = "none" /\ StaticAddress(rndis).ok
    /\ Len(call.queries) = 3
    /\ ~ObservedUp(call.queries[1]) /\ ~ObservedUp(call.queries[2])
    /\ ObservedUp(call.queries[3])
    /\ call.ret

\* The call is in DHCP mode, did not find the interface up and discovered
\* it after enabling tethering.
DhcpDiscovered ==
    /\ RndisCall /\ call.exc = "none" /\ IsDhcp(rndis) /\ ~UpAtEntry
    /\ Len(call.queries) >= 2 /\ call.queries[2].interface # None

\* C20: in DHCP mode, a check_rndis call that discovers the tether
\* interface after enabling tethering requests DHCP on it and returns
\* ready in that same call, with no further interface query.
C20_DhcpAcceptedSameCall ==
    DhcpDiscovered =>
      /\ call.log[Len(call.log)]
           = Cmd("su", "netcfg " \o call.queries[2].interface \o " dhcp")
      /\ Len(call.queries) = 2
      /\ call.ret

\* C21: in every interleaving of the waiting thread and the timer thread,
\* kill is never executed on a process that completed by itself before the
\* time limit, and no kill is executed after the timer was cancelled on
\* normal completion.
C21_NoSpuriousKill ==
    RunCall => (~call.killed_completed /\ ~call.killed_after_cancel)

\* run has returned to its caller, or raised.
RunReturned == RunCall /\ pc = "returned"

\* A call of run gives no output (None) when the process was killed at the
\* time limit and when communicate() failed, and never raises.
TimeoutIsNoOutput ==
    RunReturned =>
      /\ call.exc = "none"
      /\ call.proc = "killed" => call.ret = NoOutput
      /\ call.comm_error => call.ret = NoOutput

\* C22: a process that does not complete within the time limit is killed
\* and run returns to its caller; the timeout surfaces as no output, as
\* does a failure to spawn or to communicate, and never as an exception.
C22_TimeoutNoOutput ==
    /\ []TimeoutIsNoOutput
    /\ [](RunCall /\ call.proc = "running" /\ call.timed_out
            => <>(RunCall /\ call.proc # "running"))
    /\ (pc = "waiting") ~> (pc = "returned")

CleanupCall == call.op = "cleanup_device"

PackageQuery(app) == Cmd("shell", "dumpsys package " \o app)

\* A step never changes a cached installed flag.
FlagsKept ==
    \A i \in 1..Len(KnownApps) :
      known_apps[i] # "unknown" => known_apps'[i] = known_apps[i]

\* A cleanup pass asks for exactly the apps that have no cached flag, caches
\* for them whether the answer had a version line (not installed when the
\* query failed), and force-stops exactly the apps whose flag is true.
CleanupPass ==
    CleanupCall =>
      \A i \in 1..Len(KnownApps) :
        LET app == KnownApps[i]
            was == call.pre.known_apps[i]
        IN /\ Count(PackageQuery(app), call.log)
                = (IF was = "unknown" THEN 1 ELSE 0)
           /\ known_apps[i] \in {"installed", "absent"}
           /\ was = "unknown" =>
                (known_apps[i] = "installed"
                   <=> call.asked[i] = Output("    versionName=2.1\n"))
           /\ was # "unknown" => known_apps[i] = was
           /\ Count(ForceStop(app), call.log)
                = (IF known_apps[i] = "installed" THEN 1 ELSE 0)

\* C23: across any sequence of cleanup_device calls the package query is
\* issued at most once per known app (only while its flag is not cached,
\* and every pass caches it), a cached flag never changes, also one cached
\* as not installed after a failed query, and an app is force-stopped in a
\* pass exactly if its cached flag is true.
C23_KnownAppsCached == [][FlagsKept]_vars /\ []CleanupPass

\* A later pass: one app cached as installed, one cached as not installed
\* after its query had failed; no query, one force-stop.
C23_Witness ==
    /\ CleanupCall
    /\ call.pre.known_apps = <<"installed", "absent", "absent">>
    /\ known_apps = call.pre.known_apps
    /\ \A i \in 1..Len(KnownApps) : ~InSeq(PackageQuery(KnownApps[i]), call.log)
    /\ InSeq(ForceStop(KnownApps[1]), call.log)
    /\ ~InSeq(ForceStop(KnownApps[2]), call.log)

\* C24: a call of is_device_ready that returns ready has, in that call,
\* sent at least one ping, and the last ping it sent was answered and no
\* earlier one was; the answer came from the stored address (which then
\* stays) or, after a property scan, from a fallback address, which is
\* then the stored address and not None.  A call in which every probe
\* failed, or which sent none, does not return ready.
C24_ReadyImpliesPingAnswered ==
    ReadyCall =>
      LET n == Len(call.pings)
          answered == {i \in 1..n : call.pings[i].ok}
      IN /\ call.ret =>
              /\ call.conn = "true"
              /\ n > 0 /\ answered = {n}
              /\ Count(PingCmd(call.pings[n].addr), call.log) > 0
              /\ ping_address = call.pings[n].addr
              /\ ping_address # None
              /\ ~call.scanned =>
                   (n = 1 /\ ping_address = call.pre.ping_address)
              /\ call.scanned =>
                   (\E k \in 1..Len(call.addresses) :
                      call.addresses[k] = ping_address)
         /\ answered = {} => ~call.ret

\* A ready return after a fallback: the stored address did not answer, a
\* later candidate did and is now the stored address.
C24_Witness ==
    /\ ReadyCall /\ call.ret /\ call.scanned
    /\ Len(call.pings) > 2
    /\ ~call.pings[1].ok
    /\ call.pings[1].addr = call.pre.ping_address
    /\ ping_address = call.pings[Len(call.pings)].addr
    /\ ping_address # call.pre.ping_address

=============================================================================
